---------------------------- MODULE Spec2Model ----------------------------
(***************************************************************************)
(* Risk-Profiling-System: the suitability classification, the advisor      *)
(* review of an assessment, IPS generation and the portfolio editor, as    *)
(* state machines over the tables of the hosted store and the React state  *)
(* of the editor components.                                               *)
(*                                                                         *)
(* JavaScript numbers are modelled as exact rationals <<n, d>> (d > 0, in  *)
(* lowest terms); every comparison of the code is made on these.           *)
(***************************************************************************)
EXTENDS Integers, Sequences, FiniteSets, TLC

VARIABLES
    questionnaire,              \* risk_questions joined with risk_answer_options
    risk_assessments,           \* table risk_assessments, in insertion order
    risk_assessment_completed,  \* clients.risk_assessment_completed
    ips_documents,              \* table ips_documents with its target_allocations
    lastResponse,               \* the HTTP response of the last request
    portfolio,                  \* the row of table portfolios
    portfolio_holdings,         \* the rows of portfolio_holdings of that portfolio
    editor,                     \* React state of PortfolioEditor (and its portfolio prop)
    modal,                      \* React state of RebalanceModal while it is shown
    steps,                      \* number of portfolio operations performed so far
    analysis,                   \* outcome of the last aiService.analyzeRiskAssessment call
    requests,                   \* the PUT /:id/holdings requests being handled
    other_portfolio,            \* a second portfolio: its row and its holdings
    call,                       \* the withRetry invocation of AIService
    client                      \* investable_assets and net_worth of the clients row

vars == <<questionnaire, risk_assessments, risk_assessment_completed, ips_documents,
          lastResponse, portfolio, portfolio_holdings, editor, modal, steps,
          analysis, requests, other_portfolio, call, client>>

assessmentVars ==
    <<questionnaire, risk_assessments, risk_assessment_completed, ips_documents, analysis,
      call, client>>

portfolioVars == <<portfolio, portfolio_holdings, editor, modal, steps, requests, other_portfolio>>

-----------------------------------------------------------------------------
(* Bounds of the model *)

MaxQuestions == 3

MaxAssessments == 2

MaxIps == 1

MaxHoldings == 3

MaxSteps == 3

-----------------------------------------------------------------------------
(* Numbers: exact rationals *)

Abs(n) == IF n < 0 THEN -n ELSE n

RECURSIVE GCD(_, _)
GCD(a, b) == IF b = 0 THEN a ELSE GCD(b, a % b)

\* n/d in lowest terms with a positive denominator (d # 0)
Ratio(n, d) ==
    LET s == IF d < 0 THEN -1 ELSE 1
        g == GCD(Abs(n), Abs(d))
    IN  IF n = 0 THEN <<0, 1>> ELSE <<(s * n) \div g, (s * d) \div g>>

Num(n) == <<n, 1>>

\* the sums and products cancel common factors before they multiply
RAdd(x, y) ==
    LET g == GCD(x[2], y[2])
    IN  Ratio(x[1] * (y[2] \div g) + y[1] * (x[2] \div g), (x[2] \div g) * y[2])

RSub(x, y) == RAdd(x, <<-y[1], y[2]>>)

RMul(x, y) ==
    LET g == GCD(Abs(x[1]), y[2])
        h == GCD(Abs(y[1]), x[2])
    IN  Ratio((x[1] \div g) * (y[1] \div h), (x[2] \div h) * (y[2] \div g))

\* x / y for y # 0
RDiv(x, y) == RMul(x, IF y[1] < 0 THEN <<-y[2], -y[1]>> ELSE <<y[2], y[1]>>)

RLt(x, y) ==
    LET g == GCD(x[2], y[2])
    IN  x[1] * (y[2] \div g) < y[1] * (x[2] \div g)

RLe(x, y) ==
    LET g == GCD(x[2], y[2])
    IN  x[1] * (y[2] \div g) <= y[1] * (x[2] \div g)

RGt(x, y) == RLt(y, x)

RGe(x, y) == RLe(y, x)

RMin(x, y) == IF RLe(x, y) THEN x ELSE y

Range(s) == {s[i] : i \in 1..Len(s)}

\* the lowest score_value in the place of the highest
RECURSIVE SeqMin(_)
SeqMin(s) == IF Len(s) = 1 THEN s[1]
             ELSE LET m == SeqMin(Tail(s)) IN IF s[1] < m THEN s[1] ELSE m

\* Math.max(...) of a non-empty list
RECURSIVE SeqMax(_)
SeqMax(s) == IF Len(s) = 1 THEN s[1]
             ELSE LET m == SeqMax(Tail(s)) IN IF s[1] > m THEN s[1] ELSE m

-----------------------------------------------------------------------------
(* Questionnaire data *)

Conservative == "Conservative"

Moderate == "Moderate"

Aggressive == "Aggressive"

Categories == {Conservative, Moderate, Aggressive}

\* question_text (lower-cased) is modelled by the set of keywords it contains
\* The questions a questionnaire may be made of: text, weight and the
\* score_value of each of its options (option ids are the indices).
QuestionKinds ==
    { [question_text |-> {"horizon"}, weight |-> 1, options |-> <<0, 2, 4>>],
      [question_text |-> {"time"},    weight |-> 1, options |-> <<1, 2>>],
      [question_text |-> {"income"},  weight |-> 2, options |-> <<1, 4>>],
      [question_text |-> {},          weight |-> 1, options |-> <<1, 2, 4>>],
      [question_text |-> {},          weight |-> 2, options |-> <<0, 0>>] }

\* The questionnaires of the model: 1..MaxQuestions questions; a question's id
\* is its position.
Questionnaires == UNION {[1..n -> QuestionKinds] : n \in 1..MaxQuestions}

\* An option id is <<question id, position among the question's options>>;
\* NoSuchOption is an id that no option of any question has.
NoSuchOption == <<0, 0>>

OptionIds(questions, qid) == {<<qid, k>> : k \in 1..Len(questions[qid].options)}

ResponseEntries(questions) ==
    UNION {[question_id : {qid}, selected_option_id : OptionIds(questions, qid) \cup {NoSuchOption}]
             : qid \in 1..Len(questions)}

\* payload.responses: at most one entry per question, possibly leaving
\* questions out; the entries are in question order (the handler looks an entry
\* up by its question_id, never by its position).
ResponseArrays(questions) ==
    UNION {{r \in [1..n -> ResponseEntries(questions)] :
              \A i, j \in 1..n : i < j => r[i].question_id < r[j].question_id}
             : n \in 0..Len(questions)}

\* The complete response arrays, as RiskQuestionnaireView builds them from its
\* answers.
CompleteResponseArrays(questions) ==
    {r \in ResponseArrays(questions) :
        /\ Len(r) = Len(questions)
        /\ \A i \in 1..Len(r) : r[i].question_id = i /\ r[i].selected_option_id # NoSuchOption}

\* payload.responses as the route accepts it: any entries in any order, a
\* question may have several
ResponseLists(questions) ==
    UNION {[1..n -> ResponseEntries(questions)] : n \in 0..Len(questions)}

\* the entries of an array in the order p
Shuffled(responses, p) == [i \in 1..Len(responses) |-> responses[p[i]]]

Orderings(responses) == {Shuffled(responses, p) : p \in Permutations(1..Len(responses))}

\* The questions of the classification scenarios: a time-horizon, an income
\* and an untagged question, weight 1, options scoring 1 to 4.
ScenarioKinds ==
    [question_text : {{"horizon"}, {"income"}, {}}, weight : {1}, options : {<<1, 2, 3, 4>>}]

-----------------------------------------------------------------------------
(* POST /api/questionnaires/submit *)

\* payload.responses.find(r => r.question_id === q.id): the position of the
\* first match, 0 for undefined
RECURSIVE FindResponse(_, _, _)
FindResponse(responses, qid, i) ==
    IF i > Len(responses) THEN 0
    ELSE IF responses[i].question_id = qid THEN i
    ELSE FindResponse(responses, qid, i + 1)

\* qOptions.find(o => o.id === userResponse.selected_option_id) is defined
HasSelectedOpt(questions, qid, optId) ==
    optId[1] = qid /\ optId[2] \in 1..Len(questions[qid].options)

\* selectedOpt?.score_value || 0
ScoreValueOrZero(questions, qid, optId) ==
    IF HasSelectedOpt(questions, qid, optId) THEN questions[qid].options[optId[2]] ELSE 0

\* the first loop: raw_score, max_score and the rows for risk_assessment_responses
RECURSIVE ScoreLoop(_, _, _, _)
ScoreLoop(questions, responses, i, acc) ==
    IF i > Len(questions) THEN acc
    ELSE
      LET q == questions[i]
          maxOptScore == SeqMax(q.options)
          u == FindResponse(responses, i, 1)
          score_given == ScoreValueOrZero(questions, i, responses[u].selected_option_id) * q.weight
          withMax == [acc EXCEPT !.max_score = @ + maxOptScore * q.weight]
      IN  IF u # 0
          THEN ScoreLoop(questions, responses, i + 1,
                 [withMax EXCEPT
                    !.raw_score = @ + score_given,
                    !.responseInserts = Append(@, [question_id |-> i,
                        selected_option_id |-> responses[u].selected_option_id,
                        score_given |-> score_given])])
          ELSE ScoreLoop(questions, responses, i + 1, withMax)

Includes(text, keyword) == keyword \in text

IsAbility(text) ==
    \/ Includes(text, "horizon") \/ Includes(text, "time") \/ Includes(text, "withdraw")
    \/ Includes(text, "income") \/ Includes(text, "years")

\* a knock-out that spares score_value 1
IsKnockoutBelow(text, hasOpt, score_value) ==
    (Includes(text, "horizon") \/ Includes(text, "time")) /\ hasOpt /\ score_value < 1

\* (text.includes('horizon') || text.includes('time')) && selectedOpt && selectedOpt.score_value <= 1
IsKnockout(text, hasOpt, score_value) ==
    (Includes(text, "horizon") \/ Includes(text, "time")) /\ hasOpt /\ score_value <= 1

\* the second loop: the willingness / ability sums and the knock-out flag
RECURSIVE SuitabilityLoop(_, _, _, _)
SuitabilityLoop(questions, responses, i, acc) ==
    IF i > Len(questions) THEN acc
    ELSE
      LET q == questions[i]
          maxOptScore == SeqMax(q.options)
          u == FindResponse(responses, i, 1)
          optId == responses[u].selected_option_id
          score == ScoreValueOrZero(questions, i, optId) * q.weight
          maxScore == maxOptScore * q.weight
          text == q.question_text
      IN  IF u = 0 THEN SuitabilityLoop(questions, responses, i + 1, acc)
          ELSE IF IsAbility(text)
          THEN SuitabilityLoop(questions, responses, i + 1,
                 [acc EXCEPT
                    !.ability_raw = @ + score,
                    !.ability_max = @ + maxScore,
                    !.is_knockout_conservative =
                        @ \/ IsKnockout(text, HasSelectedOpt(questions, i, optId),
                                        ScoreValueOrZero(questions, i, optId))])
          ELSE SuitabilityLoop(questions, responses, i + 1,
                 [acc EXCEPT !.willingness_raw = @ + score, !.willingness_max = @ + maxScore])

\* max > 0 ? (raw / max) * 100 : 0
PartitionScore(raw, max) == IF max > 0 THEN RMul(Ratio(raw, max), Num(100)) ELSE Num(0)

LowerBoundary == Ratio(35, 100)

UpperBoundary == Ratio(65, 100)

\* the two upper bands exchanged
ClassifyBandsExchanged(willingness_score, ability_score, is_knockout_conservative) ==
    IF is_knockout_conservative THEN Conservative
    ELSE LET suitability_score == RDiv(RMin(willingness_score, ability_score), Num(100))
         IN  IF RGt(suitability_score, LowerBoundary) /\ RLe(suitability_score, UpperBoundary)
             THEN Aggressive
             ELSE IF RGt(suitability_score, UpperBoundary) THEN Moderate
             ELSE Conservative

\* the final category from the two partition scores and the knock-out flag
Classify(willingness_score, ability_score, is_knockout_conservative) ==
    IF is_knockout_conservative THEN Conservative
    ELSE LET suitability_score == RDiv(RMin(willingness_score, ability_score), Num(100))
         IN  IF RGt(suitability_score, LowerBoundary) /\ RLe(suitability_score, UpperBoundary)
             THEN Moderate
             ELSE IF RGt(suitability_score, UpperBoundary) THEN Aggressive
             ELSE Conservative

NULL == "null"

\* the record inserted into risk_assessments, with its response rows
NewAssessment(questions, payload) ==
    LET s == ScoreLoop(questions, payload.responses, 1,
                       [raw_score |-> 0, max_score |-> 0, responseInserts |-> <<>>])
        t == SuitabilityLoop(questions, payload.responses, 1,
                       [willingness_raw |-> 0, willingness_max |-> 0, ability_raw |-> 0,
                        ability_max |-> 0, is_knockout_conservative |-> FALSE])
        willingness_score == PartitionScore(t.willingness_raw, t.willingness_max)
        ability_score == PartitionScore(t.ability_raw, t.ability_max)
    IN  [ raw_score |-> s.raw_score,
          normalized_score |-> IF s.max_score > 0 THEN Ratio(s.raw_score, s.max_score) ELSE Num(0),
          risk_category |-> Classify(willingness_score, ability_score, t.is_knockout_conservative),
          finalized_by_advisor |-> FALSE,
          finalized_at |-> NULL,
          ai_confidence_score |-> payload.ai_confidence_score,
          ai_behavior_summary |-> payload.ai_behavior_summary,
          advisor_override_category |-> NULL,
          advisor_override_reason |-> NULL,
          responses |-> s.responseInserts ]

Response(route, status) == [route |-> route, status |-> status]

\* a submission that replaces the client's history by the new record
SubmitReplacingHistory(payload) ==
    /\ Len(risk_assessments) < MaxAssessments
    /\ risk_assessments' = <<NewAssessment(questionnaire, payload)>>
    /\ risk_assessment_completed' = TRUE
    /\ lastResponse' = Response("POST /api/questionnaires/submit", 200)
    /\ UNCHANGED <<questionnaire, ips_documents, portfolioVars>>

Submit(payload) ==
    /\ Len(risk_assessments) < MaxAssessments
    /\ risk_assessments' = Append(risk_assessments, NewAssessment(questionnaire, payload))
    /\ risk_assessment_completed' = TRUE
    /\ lastResponse' = Response("POST /api/questionnaires/submit", 200)
    /\ UNCHANGED <<questionnaire, ips_documents, portfolioVars>>

-----------------------------------------------------------------------------
(* handleSubmit of RiskQuestionnaireView *)

\* aiService.analyzeRiskAssessment threw
AnalysisFailed == [thrown |-> "AI Analysis failed"]

\* what the call returns when it succeeds; a missing number is read as 0
Analyses ==
    [behavioral_summary : {NULL, "analysis"}, reliability_score : {0, 50, 65},
     consistency_score : {0, 50}, response_stability : {50}]

FallbackSummary == "AI analysis unavailable. Deterministic scoring used."

\* a catch block that leaves the summary empty
FallbackAnalysisUnmarked ==
    [behavioral_summary |-> "", reliability_score |-> 50,
     consistency_score |-> 50, response_stability |-> 50]

\* the values of the catch block
FallbackAnalysis ==
    [behavioral_summary |-> FallbackSummary, reliability_score |-> 50,
     consistency_score |-> 50, response_stability |-> 50]

\* the view's own normalized_score: raw_score / max_score over the answers
ViewNormalizedScore(questions, answers) ==
    LET s == ScoreLoop(questions, answers, 1,
                       [raw_score |-> 0, max_score |-> 0, responseInserts |-> <<>>])
    IN  IF s.max_score > 0 THEN Ratio(s.raw_score, s.max_score) ELSE Num(0)

\* a distance measured against 0.15 in every band
BoundaryDistanceOverModerateWidth(normalized_score) ==
    IF RLe(normalized_score, LowerBoundary)
    THEN RMul(RDiv(RSub(LowerBoundary, normalized_score), Ratio(15, 100)), Num(100))
    ELSE IF RLe(normalized_score, UpperBoundary)
    THEN RMul(RDiv(RMin(RSub(normalized_score, LowerBoundary),
                        RSub(UpperBoundary, normalized_score)), Ratio(15, 100)), Num(100))
    ELSE RMul(RDiv(RSub(normalized_score, UpperBoundary), Ratio(15, 100)), Num(100))

\* boundary_distance_score: the distance to the nearest category boundary, as
\* a percentage of the largest distance of the band
BoundaryDistanceScore(normalized_score) ==
    IF RLe(normalized_score, LowerBoundary)
    THEN RMul(RDiv(RSub(LowerBoundary, normalized_score), Ratio(35, 100)), Num(100))
    ELSE IF RLe(normalized_score, UpperBoundary)
    THEN RMul(RDiv(RMin(RSub(normalized_score, LowerBoundary),
                        RSub(UpperBoundary, normalized_score)), Ratio(15, 100)), Num(100))
    ELSE RMul(RDiv(RSub(normalized_score, UpperBoundary), Ratio(35, 100)), Num(100))

\* summaryWithBreakdown: the text followed by the breakdown, of which the two
\* scores of the analysis and the boundary distance are kept
SummaryWithBreakdown(a, boundary_distance_score) ==
    [text |-> a.behavioral_summary, consistency |-> a.consistency_score,
     boundary |-> boundary_distance_score, stability |-> a.response_stability]

\* questionnaire.questions.filter(q => !answers[q.id])
Unanswered(questions, answers) ==
    {qid \in 1..Len(questions) : \A i \in 1..Len(answers) : answers[i].question_id # qid}

HandleSubmit(answers, outcome) ==
    LET a == IF outcome = AnalysisFailed THEN FallbackAnalysis ELSE outcome
    IN  /\ Unanswered(questionnaire, answers) = {}
        /\ analysis' = outcome
        /\ UNCHANGED <<call, client>>
        /\ Submit([responses |-> answers,
                   ai_confidence_score |-> a.reliability_score,
                   ai_behavior_summary |->
                       SummaryWithBreakdown(a, BoundaryDistanceScore(
                           ViewNormalizedScore(questionnaire, answers)))])

-----------------------------------------------------------------------------
(* AIService.withRetry *)

\* retries = 3
Retries == 3

\* delay = 1000
Delay == 1000

\* how one await fn() ends: with the result, or with an error of this message
\* ("" for an error without a message)
Result == "result"

Transient == {"503", "high demand", "UNAVAILABLE", "fetch failed", "Timeout"}

FnOutcomes == {Result} \cup Transient \cup {"400", ""}

\* error.message?.includes(...) for one of the five signals
IsRetryable(message) == message \in Transient

\* a test that also retries with no retries left
ShouldRetryAtZero(retries, message) == retries >= 0 /\ IsRetryable(message)

\* retries > 0 && isRetryable
ShouldRetry(retries, message) == retries > 0 /\ IsRetryable(message)

NoCall == [pc |-> "idle", retries |-> Retries, delay |-> Delay, outcomes |-> <<>>]

\* this.withRetry(fn): the first await fn() is pending
WithRetry ==
    /\ call.pc = "idle"
    /\ call' = [call EXCEPT !.pc = "calling"]

\* await fn() settles
FnSettles(outcome) ==
    /\ call.pc = "calling"
    /\ call' = [call EXCEPT
                  !.outcomes = Append(call.outcomes, outcome),
                  !.pc = IF outcome = Result THEN "returned"
                         ELSE IF ShouldRetry(call.retries, outcome) THEN "waiting"
                         ELSE "thrown"]

\* setTimeout(resolve, delay) fires: return this.withRetry(fn, retries - 1, delay * 2)
TimerFires ==
    /\ call.pc = "waiting"
    /\ call' = [call EXCEPT !.pc = "calling", !.retries = call.retries - 1,
                            !.delay = call.delay * 2]

-----------------------------------------------------------------------------
(* POST /api/assessments/:id/finalize and /reject *)

\* JavaScript truthiness of an optional string
Truthy(x) == x # NULL /\ x # ""

RejectedReason == "Rejected by advisor. Client requested to retake."

\* an update that writes the override into risk_category as well
FinalizeUpdateOverwritingCategory(a, override_category, override_reason) ==
    LET u1 == [a EXCEPT !.finalized_by_advisor = TRUE, !.finalized_at = "now"]
        u2 == IF Truthy(override_category)
              THEN [u1 EXCEPT !.advisor_override_category = override_category,
                              !.risk_category = override_category]
              ELSE u1
    IN  IF Truthy(override_reason) THEN [u2 EXCEPT !.advisor_override_reason = override_reason]
        ELSE u2

\* the row after .update(updateData)
FinalizeUpdate(a, override_category, override_reason) ==
    LET u1 == [a EXCEPT !.finalized_by_advisor = TRUE, !.finalized_at = "now"]
        u2 == IF Truthy(override_category)
              THEN [u1 EXCEPT !.advisor_override_category = override_category]
              ELSE u1
    IN  IF Truthy(override_reason) THEN [u2 EXCEPT !.advisor_override_reason = override_reason]
        ELSE u2

Finalize(id, override_category, override_reason) ==
    /\ IF id \in 1..Len(risk_assessments)
       THEN /\ risk_assessments' = [risk_assessments EXCEPT
                   ![id] = FinalizeUpdate(@, override_category, override_reason)]
            /\ lastResponse' = Response("POST /api/assessments/:id/finalize", 200)
       ELSE /\ lastResponse' = Response("POST /api/assessments/:id/finalize", 500)
            /\ UNCHANGED risk_assessments
    /\ UNCHANGED <<questionnaire, risk_assessment_completed, ips_documents, analysis, call, client, portfolioVars>>

RejectUpdate(a) ==
    [a EXCEPT !.finalized_by_advisor = FALSE, !.finalized_at = NULL,
              !.advisor_override_reason = RejectedReason]

Reject(id) ==
    /\ IF id \in 1..Len(risk_assessments)
       THEN /\ risk_assessments' = [risk_assessments EXCEPT ![id] = RejectUpdate(@)]
            /\ risk_assessment_completed' = FALSE
            /\ lastResponse' = Response("POST /api/assessments/:id/reject", 200)
       ELSE /\ lastResponse' = Response("POST /api/assessments/:id/reject", 500)
            /\ UNCHANGED <<risk_assessments, risk_assessment_completed>>
    /\ UNCHANGED <<questionnaire, ips_documents, analysis, call, client, portfolioVars>>

-----------------------------------------------------------------------------
(* IPS generation *)

ALLOCATION_MODELS ==
    [ Conservative |-> [Equity |-> 30, Debt |-> 60, Alternatives |-> 10],
      Moderate     |-> [Equity |-> 50, Debt |-> 40, Alternatives |-> 10],
      Aggressive   |-> [Equity |-> 70, Debt |-> 20, Alternatives |-> 10] ]

Min(a, b) == IF a < b THEN a ELSE b

Max(a, b) == IF a > b THEN a ELSE b

Allocation(asset_class, target_percent, lower_band, upper_band) ==
    [asset_class |-> asset_class, target_percent |-> target_percent,
     lower_band |-> lower_band, upper_band |-> upper_band]

\* the fallback of /generate: the model with bands of +/- 5 clamped to [0, 100]
BaselineAllocations(model) ==
    << Allocation("Equity", model.Equity, Max(0, model.Equity - 5), Min(100, model.Equity + 5)),
       Allocation("Debt", model.Debt, Max(0, model.Debt - 5), Min(100, model.Debt + 5)),
       Allocation("Alternatives", model.Alternatives, Max(0, model.Alternatives - 5),
                  Min(100, model.Alternatives + 5)) >>

\* What the text-generation collaborator may answer for target_allocations:
\* nothing, an empty list, a set that sums to 100, a set that does not.
AiResponses ==
    { [has_allocations |-> FALSE, target_allocations |-> <<>>],
      [has_allocations |-> TRUE, target_allocations |-> <<>>],
      [has_allocations |-> TRUE, target_allocations |->
          << Allocation("Equity", 60, 55, 65), Allocation("Debt", 30, 25, 35),
             Allocation("Alternatives", 10, 5, 15) >>],
      [has_allocations |-> TRUE, target_allocations |->
          << Allocation("Equity", 60, 55, 65), Allocation("Debt", 20, 15, 25),
             Allocation("Alternatives", 10, 5, 15) >>] }

\* score > 1 ? score / 100 : score
NormalizedConfidence(score) == IF score > 1 THEN Ratio(score, 100) ELSE Num(score)

MinConfidence == Ratio(65, 100)

NewIps(risk_assessment_id, risk_category, target_allocations) ==
    [ risk_assessment_id |-> risk_assessment_id,
      risk_category |-> risk_category,
      status |-> "Draft",
      advisor_accepted_at |-> NULL,
      client_accepted_at |-> NULL,
      target_allocations |-> target_allocations ]

\* POST /api/ips/generate
GenerateIPS(risk_assessment_id, aiResponse) ==
    LET route == "POST /api/ips/generate" IN
    /\ Len(ips_documents) < MaxIps
    /\ IF risk_assessment_id \notin 1..Len(risk_assessments)
       THEN lastResponse' = Response(route, 404) /\ UNCHANGED ips_documents
       ELSE
         LET assessment == risk_assessments[risk_assessment_id]
             riskCategory == assessment.risk_category
             model == ALLOCATION_MODELS[riskCategory]
             allocationsToInsert ==
                 IF aiResponse.has_allocations /\ Len(aiResponse.target_allocations) > 0
                 THEN aiResponse.target_allocations
                 ELSE BaselineAllocations(model)
         IN  IF ~assessment.finalized_by_advisor
             THEN lastResponse' = Response(route, 400) /\ UNCHANGED ips_documents
             ELSE IF RLt(NormalizedConfidence(assessment.ai_confidence_score), MinConfidence)
             THEN lastResponse' = Response(route, 400) /\ UNCHANGED ips_documents
             ELSE /\ ips_documents' = Append(ips_documents,
                        NewIps(risk_assessment_id, riskCategory, allocationsToInsert))
                  /\ lastResponse' = Response(route, 200)
    /\ UNCHANGED <<questionnaire, risk_assessments, risk_assessment_completed, analysis, call, client,
                   portfolioVars>>

\* GET /api/clients/:id/risk_assessment: the id of the latest assessment
LatestAssessmentId == Len(risk_assessments)

\* data && data.finalized_by_advisor &&
\*   (score > 1 ? score >= 65 : score >= 0.65), which shows "Generate IPS Draft"
isEligibleForIPS(data) ==
    /\ data.finalized_by_advisor
    /\ IF data.ai_confidence_score > 1 THEN data.ai_confidence_score >= 65
       ELSE RGe(Num(data.ai_confidence_score), MinConfidence)

\* handleGenerateIPS of RiskProfileModal followed by POST /api/ips/save; the
\* button is shown when no IPS document of the client was loaded.
HandleGenerateIPS(aiResponse) ==
    LET route == "POST /api/ips/save"
        data == risk_assessments[LatestAssessmentId]
        riskCategory == data.risk_category
    IN
    /\ Len(ips_documents) < MaxIps
    /\ LatestAssessmentId >= 1
    /\ ips_documents = <<>>
    /\ isEligibleForIPS(data)
    /\ IF RLt(NormalizedConfidence(data.ai_confidence_score), MinConfidence)
       THEN UNCHANGED <<ips_documents, lastResponse>>
       ELSE IF ~aiResponse.has_allocations
       THEN lastResponse' = Response(route, 400) /\ UNCHANGED ips_documents
       ELSE /\ ips_documents' = Append(ips_documents,
                  NewIps(LatestAssessmentId, riskCategory, aiResponse.target_allocations))
            \* the document row is inserted before the allocation rows; whether the
            \* store accepts an insert of no rows is not decided by this code
            /\ IF aiResponse.target_allocations = <<>>
               THEN \E status \in {200, 500} : lastResponse' = Response(route, status)
               ELSE lastResponse' = Response(route, 200)
    /\ UNCHANGED <<questionnaire, risk_assessments, risk_assessment_completed, analysis, call, client,
                   portfolioVars>>

\* the percentages an advisor types into the IPS editor
EditedTargets == {35}

\* PUT /api/ips/:id with the editor's allocations, one target_percent edited
UpdateIPS(id, index, target_percent) ==
    /\ id \in 1..Len(ips_documents)
    /\ index \in 1..Len(ips_documents[id].target_allocations)
    /\ ips_documents' = [ips_documents EXCEPT
           ![id].target_allocations[index].target_percent = target_percent]
    /\ lastResponse' = Response("PUT /api/ips/:id", 200)
    /\ UNCHANGED <<questionnaire, risk_assessments, risk_assessment_completed, analysis, call, client,
                   portfolioVars>>

-----------------------------------------------------------------------------
(* Portfolio: the store *)

\* table securities, ordered by security_name; the id is the position
Securities ==
    << [asset_class |-> "Equity",       current_price |-> 10],
       [asset_class |-> "Fixed Income", current_price |-> 20],
       [asset_class |-> "Alternatives", current_price |-> 0] >>

\* the client's investable_assets when the portfolio is built
InvestmentAmount == 1000

Holding(security_id, allocated_percent, allocated_amount, units) ==
    [security_id |-> security_id, allocated_percent |-> allocated_percent,
     allocated_amount |-> allocated_amount, units |-> units]

\* price > 0 ? amount / price : 0
UnitsFor(amount, price) == IF price > 0 THEN RDiv(amount, Num(price)) ELSE Num(0)

RECURSIVE SumAmounts(_)
SumAmounts(hs) ==
    IF hs = <<>> THEN Num(0) ELSE RAdd(hs[1].allocated_amount, SumAmounts(Tail(hs)))

RECURSIVE SumPercents(_)
SumPercents(hs) ==
    IF hs = <<>> THEN Num(0) ELSE RAdd(hs[1].allocated_percent, SumPercents(Tail(hs)))

\* .eq('asset_class', assetClass).limit(1): the first security of the class
FirstSecurityOf(assetClass) ==
    CHOOSE i \in 1..Len(Securities) :
        /\ Securities[i].asset_class = assetClass
        /\ \A j \in 1..(i - 1) : Securities[j].asset_class # assetClass

\* the holdings createPortfolioFromIPS inserts for the target allocations
RECURSIVE BuiltHoldings(_, _)
BuiltHoldings(target_allocations, totalInvestment) ==
    IF target_allocations = <<>> THEN <<>>
    ELSE LET alloc == target_allocations[1]
             amount == RMul(Num(totalInvestment), Ratio(alloc.target_percent, 100))
             assetClass == IF alloc.asset_class = "Debt" THEN "Fixed Income" ELSE alloc.asset_class
             sid == FirstSecurityOf(assetClass)
         IN  <<Holding(sid, Num(alloc.target_percent), amount,
                       UnitsFor(amount, Securities[sid].current_price))>>
             \o BuiltHoldings(Tail(target_allocations), totalInvestment)

\* the portfolios row createPortfolioFromIPS inserts; cash_balance is left to
\* the column default, which the editor reads as (cash_balance || 0)
BuiltPortfolio(totalInvestment) ==
    [total_investment_amount |-> Num(totalInvestment), cash_balance |-> Num(0),
     approval_status |-> "Pending"]

\* GET /api/portfolios/client/:client_id on the given store
FetchedPortfolio(row, rows) ==
    [total_investment_amount |-> row.total_investment_amount,
     cash_balance |-> row.cash_balance,
     approval_status |-> row.approval_status,
     holdings |-> rows]

\* useState initial values of PortfolioEditor for a portfolio prop
MountedEditor(prop) ==
    [portfolio |-> prop, holdings |-> prop.holdings, walletAmount |-> prop.cash_balance,
     showRebalanceModal |-> FALSE]

ClosedModal == [holdings |-> <<>>, cashBalance |-> Num(0)]

\* PUT /api/portfolios/:id/holdings: the store after the three statements
PutHoldingsRow(row, holdings, cash_balance) ==
    [row EXCEPT !.total_investment_amount = SumAmounts(holdings), !.cash_balance = cash_balance]

\* const totalPortfolioValue = portfolio.total_investment_amount + (portfolio.cash_balance || 0)
totalPortfolioValue(prop) == RAdd(prop.total_investment_amount, prop.cash_balance)

\* handleSave of PortfolioEditor: the PUT, then onSave() refetches the prop
HandleSave(updatedHoldings, updatedCashBalance, newEditor) ==
    /\ portfolio_holdings' = updatedHoldings
    /\ portfolio' = PutHoldingsRow(portfolio, updatedHoldings, updatedCashBalance)
    /\ lastResponse' = Response("PUT /api/portfolios/:id/holdings", 200)
    /\ editor' = [newEditor EXCEPT !.portfolio = FetchedPortfolio(portfolio', portfolio_holdings')]

Step ==
    /\ steps < MaxSteps
    /\ steps' = steps + 1
    /\ UNCHANGED <<assessmentVars, requests, other_portfolio>>

RemoveAt(s, index) == [i \in 1..(Len(s) - 1) |-> IF i < index THEN s[i] ELSE s[i + 1]]

-----------------------------------------------------------------------------
(* Portfolio: the requests on the store, one store statement at a time *)

\* the requests that may be in flight together
MaxRequests == 2

\* portfolio 1 is (portfolio, portfolio_holdings), portfolio 2 is other_portfolio
PortfolioIds == {1, 2}

Exists(id) == IF id = 1 THEN TRUE ELSE other_portfolio.exists

\* portfolio_holdings .eq('portfolio_id', id)
RowsOf(id) == IF id = 1 THEN portfolio_holdings ELSE other_portfolio.holdings

\* portfolios .eq('id', id)
PortfolioRow(id) == IF id = 1 THEN portfolio ELSE other_portfolio.row

SetRows(id, rows) ==
    IF id = 1
    THEN portfolio_holdings' = rows /\ UNCHANGED <<portfolio, other_portfolio>>
    ELSE other_portfolio' = [other_portfolio EXCEPT !.holdings = rows]
         /\ UNCHANGED <<portfolio, portfolio_holdings>>

SetPortfolioRow(id, row) ==
    IF id = 1
    THEN portfolio' = row /\ UNCHANGED <<portfolio_holdings, other_portfolio>>
    ELSE other_portfolio' = [other_portfolio EXCEPT !.row = row]
         /\ UNCHANGED <<portfolio, portfolio_holdings>>

\* the bodies { holdings, cash_balance } of the PUT requests
PutBodies ==
    { [holdings |-> <<Holding(1, Num(60), Num(600), Num(60))>>, cash_balance |-> Num(400)],
      [holdings |-> <<Holding(2, Num(50), Num(500), Num(25)), Holding(3, Num(30), Num(300), Num(0))>>,
       cash_balance |-> Num(200)] }

\* a PUT /api/portfolios/:id/holdings in flight: pc is the statement it awaits next
PutRequest(id, body) ==
    [id |-> id, holdings |-> body.holdings, cash_balance |-> body.cash_balance,
     pc |-> "delete", status |-> 0, updated |-> FALSE]

\* the store's answer to one statement
StatementErrors == {FALSE, TRUE}

PutArrives(id, body) ==
    /\ Len(requests) < MaxRequests
    /\ Exists(id)
    /\ requests' = Append(requests, PutRequest(id, body))
    /\ UNCHANGED <<portfolio, portfolio_holdings, other_portfolio, lastResponse>>

\* 1. Delete existing holdings
PutDelete(r, deleteError) ==
    /\ r \in 1..Len(requests)
    /\ requests[r].pc = "delete"
    /\ IF deleteError
       THEN /\ requests' = [requests EXCEPT ![r].pc = "done", ![r].status = 500]
            /\ lastResponse' = Response("PUT /api/portfolios/:id/holdings", 500)
            /\ UNCHANGED <<portfolio, portfolio_holdings, other_portfolio>>
       ELSE /\ requests' = [requests EXCEPT ![r].pc = "insert"]
            /\ SetRows(requests[r].id, <<>>)
            /\ UNCHANGED lastResponse

\* 2. Insert new holdings
PutInsert(r, insertError) ==
    /\ r \in 1..Len(requests)
    /\ requests[r].pc = "insert"
    /\ IF insertError
       THEN /\ requests' = [requests EXCEPT ![r].pc = "done", ![r].status = 500]
            /\ lastResponse' = Response("PUT /api/portfolios/:id/holdings", 500)
            /\ UNCHANGED <<portfolio, portfolio_holdings, other_portfolio>>
       ELSE /\ requests' = [requests EXCEPT ![r].pc = "update"]
            /\ SetRows(requests[r].id, RowsOf(requests[r].id) \o requests[r].holdings)
            /\ UNCHANGED lastResponse

\* 3. Update portfolio total amount: the statement's error is not read
PutUpdate(r, updateError) ==
    /\ r \in 1..Len(requests)
    /\ requests[r].pc = "update"
    /\ requests' = [requests EXCEPT ![r].pc = "done", ![r].status = 200,
                                    ![r].updated = ~updateError]
    /\ lastResponse' = Response("PUT /api/portfolios/:id/holdings", 200)
    /\ IF updateError
       THEN UNCHANGED <<portfolio, portfolio_holdings, other_portfolio>>
       ELSE SetPortfolioRow(requests[r].id,
                PutHoldingsRow(PortfolioRow(requests[r].id), requests[r].holdings,
                               requests[r].cash_balance))

\* the target_allocations of the IPS a portfolio is built from
BuildAllocations ==
    { BaselineAllocations(ALLOCATION_MODELS[Moderate]),
      << Allocation("Equity", 60, 55, 65), Allocation("Cash", 40, 35, 45) >> }

HasSecurity(assetClass) == \E i \in 1..Len(Securities) : Securities[i].asset_class = assetClass

\* every allocation finds a security (after 'Debt' is read as 'Fixed Income')
AllHaveSecurity(target_allocations) ==
    \A i \in 1..Len(target_allocations) :
        HasSecurity(IF target_allocations[i].asset_class = "Debt" THEN "Fixed Income"
                    ELSE target_allocations[i].asset_class)

\* the rollback of createPortfolioFromIPS, which does not read the delete's error
Rollback(inserted, rollbackError) ==
    IF rollbackError THEN inserted ELSE [exists |-> FALSE, holdings |-> <<>>]

\* POST /api/ips/:id/build-portfolio -> createPortfolioFromIPS, for portfolio 2
CreatePortfolioFromIPS(target_allocations, totalInvestment, secError, holdError, rollbackError) ==
    LET inserted == [exists |-> TRUE, row |-> BuiltPortfolio(totalInvestment), holdings |-> <<>>]
    IN  /\ ~other_portfolio.exists
        /\ IF ~secError /\ AllHaveSecurity(target_allocations) /\ ~holdError
           THEN /\ other_portfolio' =
                     [inserted EXCEPT !.holdings = BuiltHoldings(target_allocations, totalInvestment)]
                /\ lastResponse' = Response("POST /api/ips/:id/build-portfolio", 200)
           ELSE /\ other_portfolio' = Rollback(inserted, rollbackError)
                /\ lastResponse' = Response("POST /api/ips/:id/build-portfolio", 500)
        /\ UNCHANGED <<portfolio, portfolio_holdings, requests>>

-----------------------------------------------------------------------------
(* PUT /api/ips/:id/accept and POST /api/ips/:id/build-portfolio *)

Roles == {"advisor", "client"}

\* investable_assets of the request body; 0 stands for a body without it
AcceptAmounts == {0, -5, 1000}

AcceptRequest(role, investable_assets) ==
    [role |-> role, investable_assets |-> investable_assets,
     pc |-> IF role = "client" /\ investable_assets # 0 THEN "clients" ELSE "fetch",
     currentIPS |-> [advisor_accepted_at |-> NULL, client_accepted_at |-> NULL]]

acceptFrame ==
    <<questionnaire, risk_assessments, risk_assessment_completed, analysis, call,
      portfolio, portfolio_holdings, editor, modal, steps, other_portfolio>>

\* the request arrives; updates holds the role's timestamp
AcceptArrives(role, investable_assets) ==
    /\ Len(requests) < MaxRequests
    /\ requests' = Append(requests, AcceptRequest(role, investable_assets))
    /\ UNCHANGED <<ips_documents, client, lastResponse, acceptFrame>>

\* the client accepts with an amount: clients .update({ investable_assets })
AcceptUpdateClient(r, id) ==
    /\ r \in 1..Len(requests)
    /\ requests[r].pc = "clients"
    /\ IF id \in 1..Len(ips_documents)
       THEN client' = [client EXCEPT !.investable_assets = requests[r].investable_assets]
       ELSE UNCHANGED client
    /\ requests' = [requests EXCEPT ![r].pc = "fetch"]
    /\ UNCHANGED <<ips_documents, lastResponse, acceptFrame>>

\* First fetch current state
AcceptFetch(r, id) ==
    /\ r \in 1..Len(requests)
    /\ requests[r].pc = "fetch"
    /\ IF id \in 1..Len(ips_documents)
       THEN /\ requests' = [requests EXCEPT
                  ![r].pc = "update",
                  ![r].currentIPS =
                      [advisor_accepted_at |-> ips_documents[id].advisor_accepted_at,
                       client_accepted_at |-> ips_documents[id].client_accepted_at]]
            /\ UNCHANGED lastResponse
       ELSE /\ requests' = [requests EXCEPT ![r].pc = "done"]
            /\ lastResponse' = Response("PUT /api/ips/:id/accept", 500)
    /\ UNCHANGED <<ips_documents, client, acceptFrame>>

\* a decision taken from the request's role alone
ActivatesAlways(role, currentIPS) == TRUE

\* both have accepted: the other party's timestamp was set when it was fetched
Activates(role, currentIPS) ==
    \/ role = "advisor" /\ currentIPS.client_accepted_at # NULL
    \/ role = "client" /\ currentIPS.advisor_accepted_at # NULL

\* ips_documents .update(updates) .eq('id', id); status is written together
\* with finalized_at
AcceptUpdate(r, id) ==
    /\ r \in 1..Len(requests)
    /\ requests[r].pc = "update"
    /\ id \in 1..Len(ips_documents)
    /\ LET role == requests[r].role
           u1 == IF role = "advisor"
                 THEN [ips_documents[id] EXCEPT !.advisor_accepted_at = "now"]
                 ELSE [ips_documents[id] EXCEPT !.client_accepted_at = "now"]
           u2 == IF Activates(role, requests[r].currentIPS)
                 THEN [u1 EXCEPT !.status = "Active"] ELSE u1
       IN  ips_documents' = [ips_documents EXCEPT ![id] = u2]
    /\ requests' = [requests EXCEPT ![r].pc = "done"]
    /\ lastResponse' = Response("PUT /api/ips/:id/accept", 200)
    /\ UNCHANGED <<client, acceptFrame>>

\* an amount read from net_worth alone
NetWorthOf(c) == c.net_worth

\* client.investable_assets || client.net_worth
InvestmentAmountOf(c) == IF c.investable_assets # 0 THEN c.investable_assets ELSE c.net_worth

\* POST /api/ips/:id/build-portfolio
BuildPortfolio(id, secError, holdError, rollbackError) ==
    LET route == "POST /api/ips/:id/build-portfolio"
        refused(status) ==
            /\ lastResponse' = Response(route, status)
            /\ UNCHANGED <<portfolio, portfolio_holdings, requests, other_portfolio>>
    IN
    /\ IF id \notin 1..Len(ips_documents) THEN refused(404)
       ELSE IF ips_documents[id].status # "Active" THEN refused(400)
       ELSE IF InvestmentAmountOf(client) <= 0 THEN refused(400)
       ELSE CreatePortfolioFromIPS(ips_documents[id].target_allocations,
                                   InvestmentAmountOf(client), secError, holdError,
                                   rollbackError)
    /\ UNCHANGED <<assessmentVars, editor, modal, steps>>

-----------------------------------------------------------------------------
(* PortfolioEditor *)

\* the numbers typed into the percent and the amount inputs
EditPercents == {0, 40, 120}

EditAmounts == {-50, 250}

EdAddHolding ==
    /\ Step
    /\ ~editor.showRebalanceModal
    /\ Len(Securities) # 0
    /\ Len(editor.holdings) < MaxHoldings
    /\ editor' = [editor EXCEPT !.holdings = Append(@, Holding(1, Num(0), Num(0), Num(0)))]
    /\ UNCHANGED <<portfolio, portfolio_holdings, modal, lastResponse>>

\* handleUpdateHolding: the holding after { ...current, ...updates }
UpdatedHolding(current, total, updates) ==
    LET price == Securities[current.security_id].current_price IN
    CASE updates.field = "security_id" ->
           [current EXCEPT
              !.security_id = updates.value,
              !.units = IF RGt(current.allocated_amount, Num(0))
                        THEN UnitsFor(current.allocated_amount,
                                      Securities[updates.value].current_price)
                        ELSE @]
      [] updates.field = "allocated_amount" ->
           [current EXCEPT
              !.allocated_amount = Num(updates.value),
              !.units = UnitsFor(Num(updates.value), price),
              !.allocated_percent = IF RGt(total, Num(0))
                                    THEN RMul(RDiv(Num(updates.value), total), Num(100))
                                    ELSE Num(0)]
      [] updates.field = "allocated_percent" ->
           LET amount == RMul(total, Ratio(updates.value, 100)) IN
           [current EXCEPT
              !.allocated_percent = Num(updates.value),
              !.allocated_amount = amount,
              !.units = UnitsFor(amount, price)]

HoldingUpdates ==
    [field : {"security_id"}, value : 1..Len(Securities)]
    \cup [field : {"allocated_amount"}, value : EditAmounts]
    \cup [field : {"allocated_percent"}, value : EditPercents]

HandleUpdateHolding(index, updates) ==
    /\ Step
    /\ ~editor.showRebalanceModal
    /\ index \in 1..Len(editor.holdings)
    /\ LET total == totalPortfolioValue(editor.portfolio)
           newHoldings == [editor.holdings EXCEPT ![index] = UpdatedHolding(@, total, updates)]
       IN  editor' = [editor EXCEPT !.holdings = newHoldings,
                                    !.walletAmount = RSub(total, SumAmounts(newHoldings))]
    /\ UNCHANGED <<portfolio, portfolio_holdings, modal, lastResponse>>

MaxTotalPercent == Ratio(10001, 100)

MinWallet == Ratio(-1, 100)

\* the "Save Changes" button: shown while the portfolio is a draft, disabled
\* when totalPercent > 100.01 or walletAmount < -0.01
SaveChanges ==
    /\ Step
    /\ ~editor.showRebalanceModal
    /\ editor.portfolio.approval_status = "Pending"
    /\ ~RGt(SumPercents(editor.holdings), MaxTotalPercent)
    /\ ~RLt(editor.walletAmount, MinWallet)
    /\ HandleSave(editor.holdings, editor.walletAmount, editor)
    /\ UNCHANGED modal

\* a sell that adds nothing to the wallet
HandleSellAndRemoveKeepingWallet(index) ==
    /\ Step
    /\ ~editor.showRebalanceModal
    /\ index \in 1..Len(editor.holdings)
    /\ LET newHoldings == RemoveAt(editor.holdings, index)
       IN  HandleSave(newHoldings, editor.walletAmount, [editor EXCEPT !.holdings = newHoldings])
    /\ UNCHANGED modal

\* handleSellAndRemove: the sold amount goes to the wallet, the rest is saved as it is
HandleSellAndRemove(index) ==
    /\ Step
    /\ ~editor.showRebalanceModal
    /\ index \in 1..Len(editor.holdings)
    /\ LET soldHolding == editor.holdings[index]
           newWalletAmount == RAdd(editor.walletAmount, soldHolding.allocated_amount)
           newHoldings == RemoveAt(editor.holdings, index)
       IN  HandleSave(newHoldings, newWalletAmount,
                      [editor EXCEPT !.holdings = newHoldings, !.walletAmount = newWalletAmount])
    /\ UNCHANGED modal

\* a removal that leaves the remaining percents as they are
RebalancedHoldingsUnscaled(holdings, index, total) == RemoveAt(holdings, index)

\* the remaining holdings of handleRebalanceRemove
RebalancedHoldings(holdings, index, total) ==
    LET removedHolding == holdings[index]
        newHoldings == RemoveAt(holdings, index)
        remainingTotalPercent == SumPercents(newHoldings)
    IN  IF RGt(remainingTotalPercent, Num(0)) /\ Len(newHoldings) > 0
        THEN LET targetTotalPercent == RAdd(remainingTotalPercent, removedHolding.allocated_percent)
                 factor == RDiv(targetTotalPercent, remainingTotalPercent)
             IN  [i \in 1..Len(newHoldings) |->
                    LET h == newHoldings[i]
                        newPercent == RMul(h.allocated_percent, factor)
                        newAmount == RMul(total, RDiv(newPercent, Num(100)))
                    IN  [h EXCEPT !.allocated_percent = newPercent,
                                  !.allocated_amount = newAmount,
                                  !.units = UnitsFor(newAmount,
                                                Securities[h.security_id].current_price)]]
        ELSE newHoldings

HandleRebalanceRemove(index) ==
    /\ Step
    /\ ~editor.showRebalanceModal
    /\ index \in 1..Len(editor.holdings)
    /\ LET total == totalPortfolioValue(editor.portfolio)
           finalHoldings == RebalancedHoldings(editor.holdings, index, total)
           newWalletAmount == RSub(total, SumAmounts(finalHoldings))
       IN  HandleSave(finalHoldings, newWalletAmount,
                      [editor EXCEPT !.holdings = finalHoldings, !.walletAmount = newWalletAmount])
    /\ UNCHANGED modal

-----------------------------------------------------------------------------
(* RebalanceModal, rendered with portfolio = {...portfolio, cash_balance: walletAmount} *)

\* the modal's totalPortfolioValue over the prop the editor passes
ModalTotal == RAdd(editor.portfolio.total_investment_amount, editor.walletAmount)

\* portfolio.holdings?.filter(h => h.allocated_percent > 0)
RECURSIVE PositiveHoldings(_)
PositiveHoldings(hs) ==
    IF hs = <<>> THEN <<>>
    ELSE IF RGt(hs[1].allocated_percent, Num(0))
         THEN <<hs[1]>> \o PositiveHoldings(Tail(hs))
         ELSE PositiveHoldings(Tail(hs))

OpenRebalanceModal ==
    /\ Step
    /\ ~editor.showRebalanceModal
    /\ editor' = [editor EXCEPT !.showRebalanceModal = TRUE]
    /\ modal' = [holdings |-> PositiveHoldings(editor.portfolio.holdings),
                 cashBalance |-> editor.walletAmount]
    /\ UNCHANGED <<portfolio, portfolio_holdings, lastResponse>>

\* recalculateCashBalance
RecalculatedCash(currentHoldings) == RSub(ModalTotal, SumAmounts(currentHoldings))

\* Math.max(0, Math.min(100, newPercent))
Clamp(newPercent) == Max(0, Min(100, newPercent))

HandleAllocationChange(index, newPercent) ==
    /\ Step
    /\ editor.showRebalanceModal
    /\ index \in 1..Len(modal.holdings)
    /\ LET clampedPercent == Clamp(newPercent)
           amount == RMul(ModalTotal, Ratio(clampedPercent, 100))
           holding == modal.holdings[index]
           newHoldings == [modal.holdings EXCEPT ![index] =
               [holding EXCEPT
                  !.allocated_percent = Num(clampedPercent),
                  !.allocated_amount = amount,
                  !.units = UnitsFor(amount, Securities[holding.security_id].current_price)]]
       IN  modal' = [holdings |-> newHoldings, cashBalance |-> RecalculatedCash(newHoldings)]
    /\ UNCHANGED <<portfolio, portfolio_holdings, editor, lastResponse>>

HandleSellHolding(index) ==
    /\ Step
    /\ editor.showRebalanceModal
    /\ index \in 1..Len(modal.holdings)
    /\ LET newHoldings == RemoveAt(modal.holdings, index)
       IN  modal' = [holdings |-> newHoldings, cashBalance |-> RecalculatedCash(newHoldings)]
    /\ UNCHANGED <<portfolio, portfolio_holdings, editor, lastResponse>>

\* securities.find(s => !currentSecurityIds.has(s.id)): 0 when there is none
FirstAvailableSecurity(hs) ==
    LET free == {i \in 1..Len(Securities) : \A k \in 1..Len(hs) : hs[k].security_id # i}
    IN  IF free = {} THEN 0 ELSE CHOOSE i \in free : \A j \in free : i <= j

ModalAddHolding ==
    /\ Step
    /\ editor.showRebalanceModal
    /\ Len(modal.holdings) < MaxHoldings
    /\ FirstAvailableSecurity(modal.holdings) # 0
    /\ modal' = [modal EXCEPT !.holdings =
                    Append(@, Holding(FirstAvailableSecurity(modal.holdings), Num(0), Num(0), Num(0)))]
    /\ UNCHANGED <<portfolio, portfolio_holdings, editor, lastResponse>>

HandleSecurityChange(index, securityId) ==
    /\ Step
    /\ editor.showRebalanceModal
    /\ index \in 1..Len(modal.holdings)
    /\ securityId \in 1..Len(Securities)
    /\ LET holding == modal.holdings[index]
           security == Securities[securityId]
       IN  modal' = [modal EXCEPT !.holdings[index] =
               [holding EXCEPT
                  !.security_id = securityId,
                  !.units = IF RGt(holding.allocated_amount, Num(0)) /\ security.current_price > 0
                            THEN RDiv(holding.allocated_amount, Num(security.current_price))
                            ELSE Num(0)]]
    /\ UNCHANGED <<portfolio, portfolio_holdings, editor, lastResponse>>

\* "Save Changes" of the modal (disabled when cashBalance < 0): onSave of the
\* editor sets its holdings and wallet, saves, and closes the modal
ModalSave ==
    /\ Step
    /\ editor.showRebalanceModal
    /\ ~RLt(modal.cashBalance, Num(0))
    /\ HandleSave(modal.holdings, modal.cashBalance,
                  [editor EXCEPT !.holdings = modal.holdings,
                                 !.walletAmount = modal.cashBalance,
                                 !.showRebalanceModal = FALSE])
    /\ modal' = ClosedModal

ModalClose ==
    /\ Step
    /\ editor.showRebalanceModal
    /\ editor' = [editor EXCEPT !.showRebalanceModal = FALSE]
    /\ modal' = ClosedModal
    /\ UNCHANGED <<portfolio, portfolio_holdings, lastResponse>>

-----------------------------------------------------------------------------
(* Specifications *)

NoResponse == Response("none", 0)

\* no analysis was requested yet
NoAnalysis == [thrown |-> "none"]

\* the second portfolio does not exist
NoPortfolio == [exists |-> FALSE, holdings |-> <<>>]

\* a freshly built portfolio, shown in the editor
InitPortfolio ==
    /\ portfolio = BuiltPortfolio(InvestmentAmount)
    /\ portfolio_holdings =
         BuiltHoldings(BaselineAllocations(ALLOCATION_MODELS[Moderate]), InvestmentAmount)
    /\ editor = MountedEditor(FetchedPortfolio(portfolio, portfolio_holdings))
    /\ modal = ClosedModal
    /\ steps = 0
    /\ requests = <<>>
    /\ other_portfolio = NoPortfolio

InitAssessments ==
    /\ analysis = NoAnalysis
    /\ call = NoCall
    /\ client = [investable_assets |-> InvestmentAmount, net_worth |-> InvestmentAmount]
    /\ risk_assessments = <<>>
    /\ risk_assessment_completed = FALSE
    /\ ips_documents = <<>>
    /\ lastResponse = NoResponse

\* the questionnaire of the advisor workflow
ReviewQuestionnaire ==
    << [question_text |-> {"time"}, weight |-> 1, options |-> <<1, 2>>],
       [question_text |-> {},       weight |-> 1, options |-> <<2, 4>>] >>

\* the reliability scores the analysis may return
ConfidenceScores == {0, 1, 64, 65}

OverrideCategories == {NULL} \cup Categories

OverrideReasons == {NULL, "", "client asked"}

\* payload.ai_behavior_summary || "" of a request that carries no summary
NoSummary == [text |-> "", consistency |-> 0, boundary |-> Num(0), stability |-> 0]

Payload(responses, ai_confidence_score) ==
    [responses |-> responses, ai_confidence_score |-> ai_confidence_score,
     ai_behavior_summary |-> NoSummary]

\* Scoring: any questionnaire, any response array; the stored record depends
\* on the questionnaire and the payload only, so one submission is scored
InitScore ==
    /\ questionnaire \in Questionnaires
    /\ InitAssessments
    /\ InitPortfolio

SubmitAny ==
    /\ risk_assessments = <<>>
    /\ UNCHANGED <<analysis, call, client, client>>
    /\ \E r \in ResponseArrays(questionnaire) : Submit(Payload(r, 50))

NextScore == SubmitAny

SpecScore == InitScore /\ [][NextScore]_vars

\* Advisor review of the submitted assessments
Init ==
    /\ questionnaire = ReviewQuestionnaire
    /\ InitAssessments
    /\ InitPortfolio

\* the submissions that reach the advisor: the complete response arrays of
\* RiskQuestionnaireView; those without a knock-out give every category an
\* override can differ from
SubmitComplete(ai_confidence_score) ==
    \E r \in CompleteResponseArrays(questionnaire) :
        /\ r[1].selected_option_id = <<1, 2>>
        /\ Submit(Payload(r, ai_confidence_score))
        /\ UNCHANGED <<analysis, call, client, client>>

\* the review reads neither the answers nor the confidence of an assessment
SubmitForReview == SubmitComplete(65)

FinalizeAny ==
    \E id \in 1..MaxAssessments, c \in OverrideCategories, r \in OverrideReasons : Finalize(id, c, r)

RejectAny == \E id \in 1..MaxAssessments : Reject(id)

NextReview == SubmitForReview \/ FinalizeAny \/ RejectAny

SpecReview == Init /\ [][NextReview]_vars

\* IPS generation for reviewed assessments of any confidence, with an override
\* to Conservative or none
SubmitForIps == \E c \in ConfidenceScores : SubmitComplete(c)

FinalizeForIps ==
    \E id \in 1..MaxAssessments, c \in {NULL, Conservative}, r \in {NULL, "client asked"} :
        Finalize(id, c, r)

GenerateAny == \E id \in 1..MaxAssessments, ai \in AiResponses : GenerateIPS(id, ai)

HandleGenerateAny == \E ai \in AiResponses : HandleGenerateIPS(ai)

UpdateAny == \E id \in 1..MaxIps, t \in EditedTargets : UpdateIPS(id, 1, t)

NextIps ==
    \/ SubmitForIps
    \/ FinalizeForIps
    \/ RejectAny
    \/ GenerateAny
    \/ HandleGenerateAny
    \/ UpdateAny

SpecIps == Init /\ [][NextIps]_vars

\* Submissions from the questionnaire view, with the analysis succeeding or not
HandleSubmitAny ==
    \E answers \in CompleteResponseArrays(questionnaire), outcome \in {AnalysisFailed} \cup Analyses :
        HandleSubmit(answers, outcome)

NextView == HandleSubmitAny

SpecView == Init /\ [][NextView]_vars

\* Scoring of any array of entries on the questionnaire of the workflow
SubmitList ==
    /\ UNCHANGED <<analysis, call, client, client>>
    /\ \E r \in ResponseLists(questionnaire) : Submit(Payload(r, 50))

NextOrder == SubmitList

SpecOrder == Init /\ [][NextOrder]_vars

\* Classification: two-question questionnaires of the scenario kinds, complete
\* response arrays
InitClassify ==
    /\ questionnaire \in [1..2 -> ScenarioKinds]
    /\ InitAssessments
    /\ InitPortfolio

SubmitScenario ==
    /\ UNCHANGED <<analysis, call, client, client>>
    /\ \E r \in CompleteResponseArrays(questionnaire) : Submit(Payload(r, 50))

NextClassify == SubmitScenario

SpecClassify == InitClassify /\ [][NextClassify]_vars

\* The confidence of one submission from the view, on any questionnaire
Reliabilities == {0, 1, 65, 100}

HandleSubmitOnce ==
    /\ risk_assessments = <<>>
    /\ \E answers \in CompleteResponseArrays(questionnaire), reliability \in Reliabilities :
          HandleSubmit(answers, [behavioral_summary |-> "analysis",
                                 reliability_score |-> reliability,
                                 consistency_score |-> 50, response_stability |-> 50])

NextConfidence == HandleSubmitOnce

SpecConfidence == InitScore /\ [][NextConfidence]_vars

\* Acceptance of a drafted IPS document and the building of its portfolio
ReviewedAssessment ==
    FinalizeUpdate(
        NewAssessment(ReviewQuestionnaire,
                      Payload(<<[question_id |-> 1, selected_option_id |-> <<1, 2>>],
                                [question_id |-> 2, selected_option_id |-> <<2, 1>>]>>, 65)),
        NULL, NULL)

IpsIds == 1..(MaxIps + 1)

InitActivate ==
    /\ questionnaire = ReviewQuestionnaire
    /\ analysis = NoAnalysis
    /\ call = NoCall
    /\ risk_assessments = <<ReviewedAssessment>>
    /\ risk_assessment_completed = TRUE
    /\ ips_documents = <<NewIps(1, ReviewedAssessment.risk_category,
                                BaselineAllocations(ALLOCATION_MODELS[ReviewedAssessment.risk_category]))>>
    /\ lastResponse = NoResponse
    /\ client \in [investable_assets : {0}, net_worth : {0, 2000}]
    /\ InitPortfolio

\* the advisor's body carries no amount
AcceptArrivesAny ==
    \E role \in Roles :
        \E a \in (IF role = "client" THEN AcceptAmounts ELSE {0}) : AcceptArrives(role, a)

AcceptUpdateClientAny == \E r \in 1..MaxRequests : AcceptUpdateClient(r, 1)

AcceptFetchAny == \E r \in 1..MaxRequests : AcceptFetch(r, 1)

AcceptUpdateAny == \E r \in 1..MaxRequests : AcceptUpdate(r, 1)

BuildPortfolioAny ==
    \E id \in IpsIds, secError \in StatementErrors, holdError \in StatementErrors,
       rollbackError \in StatementErrors :
        BuildPortfolio(id, secError, holdError, rollbackError)

NextActivate ==
    \/ AcceptArrivesAny
    \/ AcceptUpdateClientAny
    \/ AcceptFetchAny
    \/ AcceptUpdateAny
    \/ BuildPortfolioAny

SpecActivate == InitActivate /\ [][NextActivate]_vars

\* One withRetry invocation; the call settles and the timer fires eventually
CallFrame == UNCHANGED <<questionnaire, risk_assessments, risk_assessment_completed,
                         ips_documents, analysis, client, lastResponse, portfolioVars>>

WithRetryCalled == WithRetry /\ CallFrame

FnSettlesAny == (\E outcome \in FnOutcomes : FnSettles(outcome)) /\ CallFrame

TimerFiresNow == TimerFires /\ CallFrame

NextRetry ==
    \/ WithRetryCalled
    \/ FnSettlesAny
    \/ TimerFiresNow

SpecRetry == Init /\ [][NextRetry]_vars /\ WF_vars(NextRetry)

\* Portfolio editing
InitEditor ==
    /\ questionnaire = ReviewQuestionnaire
    /\ InitAssessments
    /\ InitPortfolio

NextEditor ==
    \/ EdAddHolding
    \/ \E i \in 1..MaxHoldings, u \in HoldingUpdates : HandleUpdateHolding(i, u)
    \/ SaveChanges
    \/ \E i \in 1..MaxHoldings : HandleSellAndRemove(i)
    \/ \E i \in 1..MaxHoldings : HandleRebalanceRemove(i)
    \/ OpenRebalanceModal
    \/ \E i \in 1..MaxHoldings, p \in EditPercents : HandleAllocationChange(i, p)
    \/ \E i \in 1..MaxHoldings : HandleSellHolding(i)
    \/ ModalAddHolding
    \/ \E i \in 1..MaxHoldings, sid \in 1..Len(Securities) : HandleSecurityChange(i, sid)
    \/ ModalSave
    \/ ModalClose

SpecEditor == InitEditor /\ [][NextEditor]_vars

\* The store under requests: holdings updates in flight together, and a build
StoreFrame == UNCHANGED <<assessmentVars, editor, modal, steps>>

PutArrivesAny ==
    /\ \E id \in PortfolioIds, body \in PutBodies : PutArrives(id, body)
    /\ StoreFrame

PutDeleteAny ==
    /\ \E r \in 1..MaxRequests, deleteError \in StatementErrors : PutDelete(r, deleteError)
    /\ StoreFrame

PutInsertAny ==
    /\ \E r \in 1..MaxRequests, insertError \in StatementErrors : PutInsert(r, insertError)
    /\ StoreFrame

PutUpdateAny ==
    /\ \E r \in 1..MaxRequests, updateError \in StatementErrors : PutUpdate(r, updateError)
    /\ StoreFrame

CreatePortfolioAny ==
    /\ \E target_allocations \in BuildAllocations, secError \in StatementErrors,
          holdError \in StatementErrors, rollbackError \in StatementErrors :
           CreatePortfolioFromIPS(target_allocations, InvestmentAmount, secError, holdError,
                                  rollbackError)
    /\ StoreFrame

NextStore ==
    \/ PutArrivesAny
    \/ PutDeleteAny
    \/ PutInsertAny
    \/ PutUpdateAny
    \/ CreatePortfolioAny

SpecStore == InitEditor /\ [][NextStore]_vars

-----------------------------------------------------------------------------
(* Properties: the stored assessments (SpecScore) *)

\* the questions answered by the stored response rows of an assessment
AnsweredQuestions(a) == {a.responses[i].question_id : i \in 1..Len(a.responses)}

RowOf(a, qid) == a.responses[CHOOSE i \in 1..Len(a.responses) : a.responses[i].question_id = qid]

\* the score_value of the option a stored row selects, if the question has it
SelectedScores(a, qid) ==
    LET optId == RowOf(a, qid).selected_option_id
    IN  IF optId[1] = qid /\ optId[2] \in 1..Len(questionnaire[qid].options)
        THEN {questionnaire[qid].options[optId[2]]}
        ELSE {}

HorizonTagged(qid) == questionnaire[qid].question_text \cap {"horizon", "time"} # {}

AbilityTagged(qid) ==
    questionnaire[qid].question_text \cap {"horizon", "time", "withdraw", "income", "years"} # {}

KnockOutAnswered(a) ==
    \E qid \in AnsweredQuestions(a) :
        HorizonTagged(qid) /\ \E v \in SelectedScores(a, qid) : v <= 1

\* C4: every stored assessment in which a question tagged horizon or time has
\* a selected option of score_value <= 1 has risk_category Conservative,
\* whatever the other answers are.
KnockOutIsConservative ==
    \A k \in 1..Len(risk_assessments) :
        KnockOutAnswered(risk_assessments[k]) => risk_assessments[k].risk_category = Conservative

\* C4 (witness): a knock-out answer next to a willingness question answered
\* with its highest option
KnockOutWithFullWillingness ==
    \E k \in 1..Len(risk_assessments) :
        LET a == risk_assessments[k] IN
        /\ KnockOutAnswered(a)
        /\ \E qid \in AnsweredQuestions(a) :
              /\ ~AbilityTagged(qid)
              /\ \E v \in SelectedScores(a, qid) :
                    v > 1 /\ \A j \in 1..Len(questionnaire[qid].options) :
                                questionnaire[qid].options[j] <= v

RECURSIVE SumSeq(_)
SumSeq(s) == IF s = <<>> THEN 0 ELSE s[1] + SumSeq(Tail(s))

MaxOption(qid) ==
    CHOOSE m \in Range(questionnaire[qid].options) :
        \A v \in Range(questionnaire[qid].options) : v <= m

\* weighted raw of a partition: weight * score_value of the selected options
WeightedRaw(a, ability) ==
    SumSeq([qid \in 1..Len(questionnaire) |->
              IF AbilityTagged(qid) = ability /\ qid \in AnsweredQuestions(a)
              THEN SumSeq([i \in 1..1 |-> IF SelectedScores(a, qid) = {} THEN 0
                                          ELSE questionnaire[qid].weight
                                               * (CHOOSE v \in SelectedScores(a, qid) : TRUE)])
              ELSE 0])

\* weighted max of a partition: weight * highest score_value of its questions
WeightedMax(ability) ==
    SumSeq([qid \in 1..Len(questionnaire) |->
              IF AbilityTagged(qid) = ability
              THEN questionnaire[qid].weight * MaxOption(qid) ELSE 0])

\* weighted max of the answered questions of a partition
AnsweredMax(a, ability) ==
    SumSeq([qid \in 1..Len(questionnaire) |->
              IF AbilityTagged(qid) = ability /\ qid \in AnsweredQuestions(a)
              THEN questionnaire[qid].weight * MaxOption(qid) ELSE 0])

\* 100 * raw / max (0 when max is 0) exceeds percent
Exceeds(raw, max, percent) == max > 0 /\ 100 * raw > percent * max

\* the category of s = min(willingness, ability) / 100 against 0.35 and 0.65
CategoryOf(wRaw, wMax, aRaw, aMax) ==
    IF ~Exceeds(wRaw, wMax, 35) \/ ~Exceeds(aRaw, aMax, 35) THEN Conservative
    ELSE IF Exceeds(wRaw, wMax, 65) /\ Exceeds(aRaw, aMax, 65) THEN Aggressive
    ELSE Moderate

\* C5: without a knock-out, the stored risk_category is the category of
\* min(willingness_score, ability_score) / 100 against the boundaries 0.35 and
\* 0.65, each partition score being 100 * weighted raw / weighted max of the
\* partition (0 when that max is 0), for every response set.
ClassifiedByPartitionMinimum ==
    \A k \in 1..Len(risk_assessments) :
        LET a == risk_assessments[k] IN
        ~KnockOutAnswered(a) =>
            a.risk_category = CategoryOf(WeightedRaw(a, FALSE), WeightedMax(FALSE),
                                         WeightedRaw(a, TRUE), WeightedMax(TRUE))

\* What the handler computes instead: the same rule with each partition's max
\* taken over the answered questions only.
ClassifiedByAnsweredPartitionMinimum ==
    \A k \in 1..Len(risk_assessments) :
        LET a == risk_assessments[k] IN
        ~KnockOutAnswered(a) =>
            a.risk_category = CategoryOf(WeightedRaw(a, FALSE), AnsweredMax(a, FALSE),
                                         WeightedRaw(a, TRUE), AnsweredMax(a, TRUE))

\* C6: no assessment is stored for a response array that leaves a question of
\* the questionnaire unanswered.
StoredAssessmentsAreComplete ==
    \A k \in 1..Len(risk_assessments) :
        AnsweredQuestions(risk_assessments[k]) = 1..Len(questionnaire)

\* C19: an assessment stored for a response array that covers every question
\* has 0 <= normalized_score <= 1, and normalized_score 0 when the
\* questionnaire's max_score is 0.
NormalizedScoreInRange ==
    \A k \in 1..Len(risk_assessments) :
        LET a == risk_assessments[k]
        IN  AnsweredQuestions(a) = 1..Len(questionnaire)
               => /\ RGe(a.normalized_score, Num(0))
                  /\ RLe(a.normalized_score, Num(1))
                  /\ (WeightedMax(TRUE) + WeightedMax(FALSE) = 0) => a.normalized_score = Num(0)

\* a complete response array was scored on a questionnaire whose options all score 0
ScoredWithZeroMax ==
    /\ Len(questionnaire) >= 2
    /\ WeightedMax(TRUE) + WeightedMax(FALSE) = 0
    /\ \E k \in 1..Len(risk_assessments) :
          /\ AnsweredQuestions(risk_assessments[k]) = 1..Len(questionnaire)
          /\ risk_assessments[k].normalized_score = Num(0)

Scores(a) == <<a.raw_score, a.normalized_score, a.risk_category>>

\* C20: the raw_score, normalized_score and risk_category stored for a
\* responses array are those computed for every ordering of its entries.
OrderInvariance ==
    [][\A r \in ResponseLists(questionnaire) :
          Submit(Payload(r, 50)) =>
              \A o \in Orderings(r) :
                  Scores(NewAssessment(questionnaire, Payload(o, 50)))
                      = Scores(risk_assessments'[Len(risk_assessments')])]_vars

-----------------------------------------------------------------------------
(* Properties: advisor review (SpecReview) *)

\* C9: no assessment has advisor_override_category stored without a non-empty
\* advisor_override_reason.
OverrideHasReason ==
    \A k \in 1..Len(risk_assessments) :
        LET a == risk_assessments[k] IN
        a.advisor_override_category # NULL =>
            a.advisor_override_reason # NULL /\ a.advisor_override_reason # ""

\* C10: no step (finalize with or without override, reject) changes the
\* risk_category, raw_score or normalized_score of a stored assessment.
ComputedClassificationImmutable ==
    [][\A k \in 1..Len(risk_assessments) :
          /\ risk_assessments'[k].risk_category = risk_assessments[k].risk_category
          /\ risk_assessments'[k].raw_score = risk_assessments[k].raw_score
          /\ risk_assessments'[k].normalized_score = risk_assessments[k].normalized_score]_vars

\* C10 (witness): an assessment finalized with an override to another category
\* and rejected afterwards
OverriddenThenRejected ==
    \E k \in 1..Len(risk_assessments) :
        LET a == risk_assessments[k] IN
        /\ a.advisor_override_category \in Categories \ {a.risk_category}
        /\ a.advisor_override_reason = RejectedReason
        /\ ~a.finalized_by_advisor

\* C24: a submission (the step answered by the submit route) appends one
\* record with finalized_by_advisor = false and leaves every earlier record as it was; no step removes a record; a reject
\* keeps the record, marks it with the rejection reason and not finalized,
\* leaves the other records as they were and resets risk_assessment_completed.
AppendOnlyHistory ==
    [][/\ Len(risk_assessments') >= Len(risk_assessments)
       /\ lastResponse'.route = "POST /api/questionnaires/submit" =>
            /\ Len(risk_assessments') = Len(risk_assessments) + 1
            /\ risk_assessments'[Len(risk_assessments')].finalized_by_advisor = FALSE
            /\ \A k \in 1..Len(risk_assessments) : risk_assessments'[k] = risk_assessments[k]
       /\ \A id \in 1..Len(risk_assessments) :
            Reject(id) =>
                /\ Len(risk_assessments') = Len(risk_assessments)
                /\ risk_assessments'[id].advisor_override_reason = RejectedReason
                /\ ~risk_assessments'[id].finalized_by_advisor
                /\ \A k \in 1..Len(risk_assessments) \ {id} :
                      risk_assessments'[k] = risk_assessments[k]
                /\ risk_assessment_completed' = FALSE]_vars

\* C24 (witness): a rejected record kept, followed by a fresh submission
RetakenAfterRejection ==
    /\ Len(risk_assessments) = 2
    /\ risk_assessments[1].advisor_override_reason = RejectedReason
    /\ ~risk_assessments[1].finalized_by_advisor
    /\ risk_assessments[2].advisor_override_reason = NULL
    /\ ~risk_assessments[2].finalized_by_advisor
    /\ risk_assessment_completed

\* C30: an assessment that carries the rejection is not finalized_by_advisor.
RejectedStaysRejected ==
    \A k \in 1..Len(risk_assessments) :
        risk_assessments[k].advisor_override_reason = RejectedReason
            => ~risk_assessments[k].finalized_by_advisor

-----------------------------------------------------------------------------
(* Properties: IPS generation (SpecIps) *)

\* the documents a step adds to ips_documents
CreatedIps == {k \in 1..Len(ips_documents') : k > Len(ips_documents)}

\* C3: an IPS document is created only for an assessment that is finalized and
\* whose confidence is at least 65 on the 0-100 scale.
IpsOnlyForEligibleAssessment ==
    [][\A k \in CreatedIps :
          LET a == risk_assessments[ips_documents'[k].risk_assessment_id] IN
          a.finalized_by_advisor /\ a.ai_confidence_score >= 65]_vars

RECURSIVE SumTargets(_)
SumTargets(allocations) ==
    IF allocations = <<>> THEN 0
    ELSE allocations[1].target_percent + SumTargets(Tail(allocations))

\* C7: the target allocations persisted for every IPS document sum to 100
\* within 0.5.
PersistedTargetsSumTo100 ==
    \A k \in 1..Len(ips_documents) :
        LET total == SumTargets(ips_documents[k].target_allocations)
        IN  2 * total >= 199 /\ 2 * total <= 201

\* C8: an IPS document created for an assessment that has
\* advisor_override_category set carries that category as its risk_category.
IpsPrefersOverride ==
    [][\A k \in CreatedIps :
          LET a == risk_assessments[ips_documents'[k].risk_assessment_id] IN
          a.advisor_override_category # NULL =>
              ips_documents'[k].risk_category = a.advisor_override_category]_vars

\* C26: every persisted target allocation has
\* 0 <= lower_band <= target_percent <= upper_band <= 100.
BandsEncloseTarget ==
    \A k \in 1..Len(ips_documents) :
        \A i \in 1..Len(ips_documents[k].target_allocations) :
            LET a == ips_documents[k].target_allocations[i] IN
            /\ 0 <= a.lower_band
            /\ a.lower_band <= a.target_percent
            /\ a.target_percent <= a.upper_band
            /\ a.upper_band <= 100

-----------------------------------------------------------------------------
(* Properties: the portfolio editor (SpecEditor) *)

\* C1: the stored holdings and cash, and those shown in the editor, add up to
\* the total the portfolio was built with, and the stored cash is not negative.
PortfolioInvariant ==
    /\ RAdd(SumAmounts(portfolio_holdings), portfolio.cash_balance) = Num(InvestmentAmount)
    /\ RAdd(SumAmounts(editor.holdings), editor.walletAmount) = Num(InvestmentAmount)
    /\ RGe(portfolio.cash_balance, Num(0))

\* C2: a holdings update is written to the store only if its cash_balance is
\* not negative and its allocated_percent sum does not exceed 100.01.
OnlyValidUpdatesStored ==
    [][(portfolio' # portfolio \/ portfolio_holdings' # portfolio_holdings) =>
          /\ RGe(portfolio'.cash_balance, Num(0))
          /\ RLe(SumPercents(portfolio_holdings'), Ratio(10001, 100))]_vars

-----------------------------------------------------------------------------
(* Properties: the questionnaire view (SpecView) *)

LastAssessment == risk_assessments[Len(risk_assessments)]

\* C11: once an analysis was requested the submission is stored, whether the
\* analysis failed or not; after a failure the stored record has reliability
\* 50, consistency 50 and stability 50, and its summary is the fallback text
\* exactly when the analysis failed.
FallbackPostedAndRecorded ==
    analysis # NoAnalysis =>
        /\ Len(risk_assessments) >= 1
        /\ lastResponse = Response("POST /api/questionnaires/submit", 200)
        /\ analysis = AnalysisFailed =>
              /\ LastAssessment.ai_confidence_score = 50
              /\ LastAssessment.ai_behavior_summary.consistency = 50
              /\ LastAssessment.ai_behavior_summary.stability = 50
        /\ analysis = AnalysisFailed <=>
              LastAssessment.ai_behavior_summary.text = FallbackSummary

\* C11 (witness): a failed analysis stored after a genuine one of the same
\* three scores
FallbackAfterGenuineFifty ==
    /\ analysis = AnalysisFailed
    /\ Len(risk_assessments) >= 2
    /\ LastAssessment.ai_confidence_score = 50
    /\ \E k \in 1..(Len(risk_assessments) - 1) :
          /\ risk_assessments[k].ai_confidence_score = 50
          /\ risk_assessments[k].ai_behavior_summary.consistency = 50
          /\ risk_assessments[k].ai_behavior_summary.text = "analysis"

-----------------------------------------------------------------------------
(* Properties: the store under requests (SpecStore) *)

InitialHoldings ==
    BuiltHoldings(BaselineAllocations(ALLOCATION_MODELS[Moderate]), InvestmentAmount)

AllDone == \A r \in 1..Len(requests) : requests[r].pc = "done"

\* C12: when the holdings updates of a portfolio have all been answered with
\* success, the portfolio's holdings are exactly the list of one of the
\* requests and its cash balance is that same request's cash balance.
FinalStateIsOneRequest ==
    (AllDone /\ \A r \in 1..Len(requests) : requests[r].status = 200 /\ requests[r].updated)
        => \A id \in PortfolioIds :
              (\E r \in 1..Len(requests) : requests[r].id = id)
                  => \E r \in 1..Len(requests) :
                        /\ requests[r].id = id
                        /\ RowsOf(id) = requests[r].holdings
                        /\ PortfolioRow(id).cash_balance = requests[r].cash_balance

\* A step taken while no request addresses portfolio 1 leaves portfolio 1 as it was.
OtherPortfolioUntouched ==
    [][(\A r \in 1..Len(requests') : requests'[r].id # 1)
           => UNCHANGED <<portfolio, portfolio_holdings>>]_vars

\* C13: a holdings update that alone addressed the store and was answered with
\* a failure left holdings, total and cash as they were, and one answered with
\* success had all three statements succeed.
FailedUpdateChangesNothing ==
    (Len(requests) = 1 /\ AllDone /\ requests[1].id = 1)
        => /\ requests[1].status = 500
                => /\ portfolio_holdings = InitialHoldings
                   /\ portfolio = BuiltPortfolio(InvestmentAmount)
           /\ requests[1].status = 200 => requests[1].updated

\* C14: after a portfolio build answered with an error neither the portfolio
\* nor holdings for it exist.
FailedBuildLeavesNothing ==
    lastResponse = Response("POST /api/ips/:id/build-portfolio", 500)
        => ~other_portfolio.exists /\ other_portfolio.holdings = <<>>

-----------------------------------------------------------------------------
(* Properties: removing a holding in the editor (SpecEditor) *)

\* C15: a sell-and-remove of holding i removes that holding and no other, adds
\* its allocated_amount to the cash shown and stored, and leaves percent,
\* amount and units of every remaining holding as they were.
SellAndRemoveFrame ==
    [][\A i \in 1..MaxHoldings :
          HandleSellAndRemove(i) =>
              /\ Len(editor'.holdings) = Len(editor.holdings) - 1
              /\ \A j \in 1..Len(editor'.holdings) :
                    editor'.holdings[j] = editor.holdings[IF j < i THEN j ELSE j + 1]
              /\ editor'.walletAmount =
                     RAdd(editor.walletAmount, editor.holdings[i].allocated_amount)
              /\ portfolio_holdings' = editor'.holdings
              /\ portfolio'.cash_balance = editor'.walletAmount]_vars

\* the first holding of the built portfolio was sold: 500 went to the cash
SoldFirstHolding ==
    /\ steps = 1
    /\ portfolio_holdings = RemoveAt(InitialHoldings, 1)
    /\ portfolio.cash_balance = Num(500)
    /\ editor.walletAmount = Num(500)

\* C16: a rebalance-remove whose remaining holdings have a positive total
\* percent multiplies each remaining percent by (remaining + removed) /
\* remaining and derives amount and units from it, so that the percents sum to
\* what they summed to before and the remaining holdings keep their relative
\* weights.
RebalanceRemoveScales ==
    [][\A i \in 1..MaxHoldings :
          (/\ HandleRebalanceRemove(i)
           /\ RGt(SumPercents(RemoveAt(editor.holdings, i)), Num(0)))
          => LET before == RemoveAt(editor.holdings, i)
                 after == editor'.holdings
                 remaining == SumPercents(before)
                 factor == RDiv(RAdd(remaining, editor.holdings[i].allocated_percent), remaining)
                 total == totalPortfolioValue(editor.portfolio)
             IN  /\ Len(after) = Len(before)
                 /\ \A j \in 1..Len(after) :
                       /\ after[j].security_id = before[j].security_id
                       /\ after[j].allocated_percent = RMul(before[j].allocated_percent, factor)
                       /\ after[j].allocated_amount =
                              RDiv(RMul(total, after[j].allocated_percent), Num(100))
                       /\ after[j].units =
                              UnitsFor(after[j].allocated_amount,
                                       Securities[after[j].security_id].current_price)
                 /\ SumPercents(after) = SumPercents(editor.holdings)
                 /\ \A j, k \in 1..Len(after) :
                       (before[k].allocated_percent # Num(0) /\ after[k].allocated_percent # Num(0))
                           => RDiv(after[j].allocated_percent, after[k].allocated_percent)
                                = RDiv(before[j].allocated_percent, before[k].allocated_percent)
                 /\ portfolio_holdings' = after]_vars

\* the first holding (50%) of the built portfolio was removed: 40% and 10% became 80% and 20%
RebalancedAfterFirstRemoved ==
    /\ steps = 1
    /\ Len(portfolio_holdings) = 2
    /\ portfolio_holdings[1].allocated_percent = Num(80)
    /\ portfolio_holdings[2].allocated_percent = Num(20)
    /\ portfolio_holdings[1].allocated_amount = Num(800)

-----------------------------------------------------------------------------
(* Properties: derived quantities of a holding (SpecEditor) *)

AmountFollows(h, total) ==
    h.allocated_amount = RDiv(RMul(total, h.allocated_percent), Num(100))

\* C17: every holding shown has allocated_amount = total * allocated_percent / 100
\* for the one total of the portfolio, in the editor and in the modal, and the
\* total the modal derives amounts from is the editor's.
AmountsFollowOneTotal ==
    LET total == totalPortfolioValue(editor.portfolio)
    IN  /\ \A i \in 1..Len(editor.holdings) : AmountFollows(editor.holdings[i], total)
        /\ editor.showRebalanceModal =>
              /\ ModalTotal = total
              /\ \A i \in 1..Len(modal.holdings) : AmountFollows(modal.holdings[i], total)

UnitsFollow(h) ==
    h.units = UnitsFor(h.allocated_amount, Securities[h.security_id].current_price)

\* C18: every holding, stored, shown in the editor or shown in the modal, has
\* units = allocated_amount / price of its security when the price is
\* positive, and units = 0 otherwise.
UnitsInvariant ==
    /\ \A i \in 1..Len(portfolio_holdings) : UnitsFollow(portfolio_holdings[i])
    /\ \A i \in 1..Len(editor.holdings) : UnitsFollow(editor.holdings[i])
    /\ editor.showRebalanceModal => \A i \in 1..Len(modal.holdings) : UnitsFollow(modal.holdings[i])

-----------------------------------------------------------------------------
(* Properties: classification (SpecClassify) *)

\* the partition scores of a stored assessment, from its response rows
WillingnessOf(a) == PartitionScore(WeightedRaw(a, FALSE), AnsweredMax(a, FALSE))

AbilityOf(a) == PartitionScore(WeightedRaw(a, TRUE), AnsweredMax(a, TRUE))

Rank(category) ==
    CASE category = Conservative -> 1 [] category = Moderate -> 2 [] category = Aggressive -> 3

\* C21: of two assessments without a knock-out and with the same
\* ability_score, the one with the higher willingness_score has a category of
\* the same or a higher rank.
ClassificationMonotone ==
    \A j, k \in 1..Len(risk_assessments) :
        LET a == risk_assessments[j]
            b == risk_assessments[k]
        IN  (/\ ~KnockOutAnswered(a) /\ ~KnockOutAnswered(b)
             /\ AbilityOf(a) = AbilityOf(b)
             /\ RLe(WillingnessOf(a), WillingnessOf(b)))
                => Rank(a.risk_category) <= Rank(b.risk_category)

\* the same ability, a willingness raised from one band into the next and into the last
WillingnessRaisedThroughBands ==
    \E j, k \in 1..Len(risk_assessments) :
        LET a == risk_assessments[j]
            b == risk_assessments[k]
        IN  /\ ~KnockOutAnswered(a) /\ ~KnockOutAnswered(b)
            /\ AbilityOf(a) = AbilityOf(b)
            /\ RLt(WillingnessOf(a), WillingnessOf(b))
            /\ RLt(WillingnessOf(b), AbilityOf(b))
            /\ a.risk_category = Moderate
            /\ b.risk_category = Aggressive

\* the options a stored assessment selected score 3 and 4, in question order
SelectedThreeAndFour(a) ==
    /\ AnsweredQuestions(a) = {1, 2}
    /\ SelectedScores(a, 1) = {3}
    /\ SelectedScores(a, 2) = {4}

\* C25: on two questions of weight 1 with a highest option score of 4, the
\* selections scoring 3 and 4 without a knock-out are stored with raw_score 7,
\* normalized_score 7/8 and risk_category Aggressive, whatever the partitions
\* of the two questions.
ScenarioIsAggressive ==
    \A k \in 1..Len(risk_assessments) :
        LET a == risk_assessments[k]
        IN  (/\ questionnaire[1].weight = 1 /\ questionnaire[2].weight = 1
             /\ SelectedThreeAndFour(a)
             /\ ~KnockOutAnswered(a))
                => /\ a.raw_score = 7
                   /\ a.normalized_score = Ratio(7, 8)
                   /\ a.risk_category = Aggressive

-----------------------------------------------------------------------------
(* Properties: the confidence of a submission (SpecConfidence) *)

-----------------------------------------------------------------------------
(* Properties: withRetry (SpecRetry) *)

Terminated == call.pc \in {"returned", "thrown"}

\* C23: fn is awaited at most 4 times; an attempt is followed by another only
\* after one of the five transient signals; withRetry returns the result of
\* its last attempt or throws the error of its last attempt; and it ends.
BoundedRetry ==
    /\ [](/\ Len(call.outcomes) <= 4
          /\ \A i \in 1..(Len(call.outcomes) - 1) :
                call.outcomes[i] \in {"503", "high demand", "UNAVAILABLE", "fetch failed", "Timeout"}
          /\ call.pc = "returned" => call.outcomes[Len(call.outcomes)] = Result
          /\ call.pc = "thrown" =>
                /\ call.outcomes[Len(call.outcomes)] # Result
                /\ (Len(call.outcomes) < 4
                       => call.outcomes[Len(call.outcomes)] \in {"400", ""}))
    /\ <>Terminated

\* three transient failures, then a fourth attempt that fails too: thrown with no fifth attempt
ThrownAfterFourAttempts ==
    /\ call.pc = "thrown"
    /\ Len(call.outcomes) = 4
    /\ call.outcomes[4] = "Timeout"
    /\ call.retries = 0
    /\ call.delay = 8000

-----------------------------------------------------------------------------
(* Properties: acceptance and portfolio building (SpecActivate) *)

Completed(role) ==
    \E r \in 1..Len(requests) : requests[r].role = role /\ requests[r].pc = "done"

\* C29: once an accept request of the advisor and one of the client have
\* completed, the IPS has both timestamps and status 'Active'; and an IPS that
\* is 'Active' has both timestamps.
AcceptedByBothIsActive ==
    LET ips == ips_documents[1] IN
    /\ Completed("advisor") /\ Completed("client") =>
          /\ ips.advisor_accepted_at # NULL
          /\ ips.client_accepted_at # NULL
          /\ ips.status = "Active"
    /\ ips.status = "Active" =>
          ips.advisor_accepted_at # NULL /\ ips.client_accepted_at # NULL

\* the IPS exists with status 'Active' and the client's amount is > 0
GateOpen(id) ==
    /\ id \in 1..Len(ips_documents)
    /\ ips_documents[id].status = "Active"
    /\ IF client.investable_assets # 0 THEN client.investable_assets > 0
       ELSE client.net_worth > 0

\* C28: a build-portfolio request inserts a portfolio only for an IPS that
\* exists with status 'Active' and a client amount > 0; every other request is
\* answered with an error and leaves the portfolios and holdings as they were.
PortfolioGated ==
    [][\A id \in IpsIds :
          (\E secError \in StatementErrors, holdError \in StatementErrors,
              rollbackError \in StatementErrors :
                 BuildPortfolio(id, secError, holdError, rollbackError))
          => /\ other_portfolio' # other_portfolio => GateOpen(id)
             /\ ~GateOpen(id) =>
                   /\ lastResponse'.status \in {400, 404}
                   /\ UNCHANGED <<portfolio, portfolio_holdings, other_portfolio>>]_vars

\* C28 (witness): a portfolio built on the client's net_worth, as no
\* investable_assets was provided
BuiltOnNetWorth ==
    /\ other_portfolio.exists
    /\ other_portfolio.holdings # <<>>
    /\ lastResponse = Response("POST /api/ips/:id/build-portfolio", 200)
    /\ client.investable_assets = 0
    /\ other_portfolio.row.total_investment_amount = Num(2000)

\* C27: the client has at most one portfolio: none is built beside portfolio 1.
OnePortfolioPerClient == ~other_portfolio.exists

=============================================================================
